---- MODULE Spec2Model ----
(***************************************************************************)
(* Model of the Sudoku engine of PlaySudokuPuzzle:                         *)
(*   src/sudoku_generator.py  available_digits, gen_sudoku_full,           *)
(*                            gen_sudoku_puzzle                            *)
(*   src/sudoku_utility.py    solve_sudoku                                 *)
(*   src/sudoku_play.py       gen_customized_puzzle                        *)
(*                                                                         *)
(* A grid (numpy 2D array) is a function g[x][y] with 0-based x (vertical) *)
(* and y (horizontal), 0 meaning an empty position.  Python lists are      *)
(* sequences; a 0-based Python index j is the sequence index j + 1.        *)
(***************************************************************************)
EXTENDS Integers, Sequences, FiniteSets, TLC

VARIABLES
    pc,            \* position of the running call
    array_size,    \* gen_sudoku_full: argument <array_size>
    sudoku_full,   \* gen_sudoku_full: local array / argument of the carver
    avail_lst,     \* gen_sudoku_full: list of candidate lists, one per cell
    i,             \* gen_sudoku_full: loop cursor
    sudoku_array,  \* gen_sudoku_puzzle: returned array
    carve_args,    \* gen_sudoku_puzzle: <<max_removed_ratio, random_seed>>
    rng,           \* state of the process-wide generator of module random
    ref,           \* session: one earlier call and what it returned
    ret,           \* session: the latest call made and what it returned
    puzzle_in,     \* solver: the array handed to solve_sudoku
    solved,        \* solver: what solve_sudoku returned
    random_seed_v, \* assembler: the seed the puzzles are built from
    digits_in,     \* available_digits: [g, pos], the array and the position given
    digits_out,    \* available_digits: what it returned
    procs,         \* concurrent calls: the locals of each process
    frames,        \* solve_sudoku step by step: the active calls, innermost last
    c_puzzle,      \* main_sudoku_play: the puzzle of the session
    c_solution,    \* main_sudoku_play: its solution
    puzzle_updated,\* main_sudoku_play: the working grid
    filling_lst,   \* main_sudoku_play: the filling strings accepted so far
    filling_new,   \* main_sudoku_play: those accepted from the command at hand
    p_input,       \* main_sudoku_play: the command, or the filling string, read
    difficulty_v,  \* main_sudoku_play: the difficulty chosen
    n_hints        \* main_sudoku_play: hint commands served so far

vars == <<pc, array_size, sudoku_full, avail_lst, i, sudoku_array, carve_args,
          rng, ref, ret, puzzle_in, solved, random_seed_v, digits_in, digits_out,
          procs, frames, c_puzzle, c_solution, puzzle_updated, filling_lst,
          filling_new, p_input, difficulty_v, n_hints>>

\* the variables of the game session
play_vars == <<c_puzzle, c_solution, puzzle_updated, filling_lst, filling_new,
               p_input, difficulty_v, n_hints>>

(***************************************************************************)
(* Bounds of the model.                                                    *)
(***************************************************************************)
\* largest grid side handed to the generator (sizes 0..MaxSize)
MaxSize == 4
\* seeds are the integers 0..MaxSeed
MaxSeed == 1
\* ratios and difficulties are the fractions k/RatioDen, k in 0..RatioDen
RatioDen == 4
\* the solver's inputs leave the last FreeCells cells (row-major) open
FreeCells == 8
\* available_digits is given the empty grids of sides 0..MaxDigitsSide
MaxDigitsSide == 9
\* and grids whose last DigitsFree cells (row-major) hold any value 0..N+1
DigitsFree == 3

\* a puzzle session accepts at most MaxFills filling strings
MaxFills == 1
\* and serves at most MaxHints hint commands
MaxHints == 1

Seeds == 0..MaxSeed

(***************************************************************************)
(* Helpers for Python values.                                              *)
(***************************************************************************)
\* int(n ** (1/2)) for n >= 0
ISqrt(n) == CHOOSE k \in 0..n : k * k <= n /\ (k + 1) * (k + 1) > n

Min(S) == CHOOSE m \in S : \A e \in S : m <= e

Max(S) == CHOOSE m \in S : \A e \in S : m >= e

\* list(set) of small ints: ascending
SortedSeq(S) ==
    [k \in 1..Cardinality(S) |->
        CHOOSE e \in S : Cardinality({d \in S : d < e}) = k - 1]

Range(s) == {s[j] : j \in 1..Len(s)}

\* every ordering of the list s (a list without repeated entries)
Perms(s) == {p \in [1..Len(s) -> Range(s)] : Range(p) = Range(s)}

\* np.zeros((n0, n0), dtype=int)
Zeros(n0) == [x \in 0..(n0 - 1) |-> [y \in 0..(n0 - 1) |-> 0]]

Shape0(g) == Cardinality(DOMAIN g)

Shape1(g) == IF DOMAIN g = {} THEN 0 ELSE Cardinality(DOMAIN g[0])

Values(g) == {g[x][y] : x \in DOMAIN g, y \in 0..(Shape1(g) - 1)}

\* np.nonzero(a == 0): the empty positions, row-major
ZeroCells(g) ==
    LET n == Shape0(g)
        m == Shape1(g)
        ps == {p \in 0..(n * m - 1) : g[p \div m][p % m] = 0}
    IN  SortedSeq(ps)

\* len(a[a == 0])
CountZeros(g) == Len(ZeroCells(g))

(***************************************************************************)
(* available_digits                                                        *)
(***************************************************************************)
\* faulty variant: the box of (ix, iy) is not scanned
Candidates_NoBox(g, ix, iy) ==
    LET n0 == Shape0(g)
        exist_lst == {g[ix][y] : y \in 0..(n0 - 1)}
                     \cup {g[x][iy] : x \in 0..(n0 - 1)}
    IN  SortedSeq((1..n0) \ exist_lst)

\* faulty variant: the column of (ix, iy) is not scanned
Candidates_NoColumn(g, ix, iy) ==
    LET n0 == Shape0(g)
        n1 == ISqrt(n0)
        ix1 == ix \div n1
        iy1 == iy \div n1
        exist_lst == {g[ix][y] : y \in 0..(n0 - 1)}
                     \cup {g[x][y] : x \in (ix1 * n1)..((ix1 + 1) * n1 - 1),
                                     y \in (iy1 * n1)..((iy1 + 1) * n1 - 1)}
    IN  SortedSeq((1..n0) \ exist_lst)

\* the digits 1..n0 absent from row ix, column iy and the box of (ix, iy)
Candidates(g, ix, iy) ==
    LET n0 == Shape0(g)
        n1 == ISqrt(n0)
        ix1 == ix \div n1
        iy1 == iy \div n1
        exist_lst == {g[ix][y] : y \in 0..(n0 - 1)}
                     \cup {g[x][iy] : x \in 0..(n0 - 1)}
                     \cup {g[x][y] : x \in (ix1 * n1)..((ix1 + 1) * n1 - 1),
                                     y \in (iy1 * n1)..((iy1 + 1) * n1 - 1)}
    IN  SortedSeq((1..n0) \ exist_lst)

\* faulty variant: the largest value must stay below n0
digits_overflow_strict(g, n0) == Max(Values(g)) >= n0

\* np.max(sudoku_array) > n0
digits_overflow(g, n0) == Max(Values(g)) > n0

\* pos is << >> for pos_x = pos_y = None and <<pos_x, pos_y>> otherwise
available_digits(g, pos) ==
    LET n0 == Shape0(g)
        n1 == ISqrt(n0)
        none == [err |-> "ok", avail_digits |-> << >>, pos_x |-> << >>, pos_y |-> << >>]
    IN  IF n0 # Shape1(g) \/ n0 # n1 * n1
          THEN [none EXCEPT !.err = "not a squared size"]
        ELSE IF Values(g) = {}
          THEN [none EXCEPT !.err = "zero-size array"]
        ELSE IF digits_overflow(g, n0)
          THEN [none EXCEPT !.err = "max value overflow"]
        ELSE IF pos = << >>
          \* (zs, the empty positions, is bound by the set constructor so that
          \* it is worked out once)
          THEN CHOOSE r \in
                 {[err |-> "ok",
                   avail_digits |-> [j \in 1..Len(zs) |->
                                       Candidates(g, zs[j] \div n0, zs[j] % n0)],
                   pos_x |-> [j \in 1..Len(zs) |-> zs[j] \div n0],
                   pos_y |-> [j \in 1..Len(zs) |-> zs[j] % n0]] :
                  zs \in {ZeroCells(g)}} : TRUE
        ELSE IF pos[1] < 0 \/ pos[1] >= n0 \/ pos[2] < 0 \/ pos[2] >= n0
          THEN [none EXCEPT !.err = "out of range"]
        ELSE [err |-> "ok",
              avail_digits |-> <<Candidates(g, pos[1], pos[2])>>,
              pos_x |-> <<pos[1]>>,
              pos_y |-> <<pos[2]>>]

(***************************************************************************)
(* gen_sudoku_full                                                         *)
(***************************************************************************)
\* array_size != int(array_size ** (1/2)) ** 2, for array_size >= 0 (for a
\* negative array_size the power is a complex number and int() raises TypeError)
NotSquared(n) == n # ISqrt(n) * ISqrt(n)

\* mx[p], my[p] of the flattened meshgrid: row-major
Mx(n0, p) == p \div n0

My(n0, p) == p % n0

\* a Python index j into a list of length len, as a sequence index (0: IndexError)
PyIndex(len, j) ==
    IF 0 <= j /\ j < len THEN j + 1
    ELSE IF j < 0 /\ -j <= len THEN len + j + 1
    ELSE 0

\* faulty variant: the candidate already tried stays in the frame
gen_discard_none(frame) == frame

\* avail_lst[i-1].pop(0): the frame without the candidate already tried
gen_discard(frame) == Tail(frame)

RECURSIVE gen_rollback(_)
\* the dead-end branch of the loop body, on st = [g, lst, i, fault]:
\* pop every frame that holds one candidate, then take the next candidate of
\* the frame reached
gen_rollback(st) ==
    LET n0 == Shape0(st.g)
        at == PyIndex(Len(st.lst), st.i - 1)
        x  == Mx(n0, (st.i - 1) % (n0 * n0))
        y  == My(n0, (st.i - 1) % (n0 * n0))
    IN  IF at = 0 THEN [st EXCEPT !.fault = TRUE]
        ELSE IF Len(st.lst[at]) = 1
          THEN gen_rollback([g |-> [st.g EXCEPT ![x][y] = 0],
                             lst |-> SubSeq(st.lst, 1, Len(st.lst) - 1),
                             i |-> st.i - 1,
                             fault |-> FALSE])
        ELSE [g |-> [st.g EXCEPT ![x][y] = gen_discard(st.lst[at])[1]],
              lst |-> [st.lst EXCEPT ![at] = gen_discard(st.lst[at])],
              i |-> st.i,
              fault |-> FALSE]

\* faulty variant: the cell is written but the frame is not pushed
gen_place_no_push(st, shuffled) ==
    LET n0 == Shape0(st.g)
    IN  [g |-> [st.g EXCEPT ![Mx(n0, st.i)][My(n0, st.i)] = shuffled[1]],
         lst |-> st.lst,
         i |-> st.i + 1,
         fault |-> FALSE]

\* the other branch: place the first entry of the shuffled list, push it
gen_place(st, shuffled) ==
    LET n0 == Shape0(st.g)
    IN  [g |-> [st.g EXCEPT ![Mx(n0, st.i)][My(n0, st.i)] = shuffled[1]],
         lst |-> Append(st.lst, shuffled),
         i |-> st.i + 1,
         fault |-> FALSE]

\* a_lst of the current iteration
gen_a_lst(st) ==
    LET n0 == Shape0(st.g)
    IN  available_digits(st.g, <<Mx(n0, st.i), My(n0, st.i)>>).avail_digits[1]

(***************************************************************************)
(* Module random.  The process-wide generator is a state rng; its Mersenne *)
(* Twister is abstracted to a 16-bit linear congruential generator, which  *)
(* keeps what the code relies on: seed(s) sets the state from s alone, and *)
(* every draw is a function of the state and advances it.                  *)
(***************************************************************************)
RngMod == 65536

RngMul == 25173

RngInc == 13849

RngShift == 256

rng_next(r) == (r * RngMul + RngInc) % RngMod

\* random.seed(s) for an int s
random_seed(s) == rng_next(s % RngMod)

\* random._randbelow(n): the value drawn in state r (the state becomes rng_next(r))
randbelow(r, n) == (rng_next(r) \div RngShift) % n

RECURSIVE shuffle_from(_, _, _)
\* random.shuffle: for k in reversed(range(1, len(x))): j = randbelow(k + 1);
\*                     x[k], x[j] = x[j], x[k]
shuffle_from(r, x, k) ==
    IF k < 1 THEN [lst |-> x, rng |-> r]
    ELSE LET j == randbelow(r, k + 1)
         IN  shuffle_from(rng_next(r),
                          [x EXCEPT ![k + 1] = x[j + 1], ![j + 1] = x[k + 1]],
                          k - 1)

shuffle(r, x) == shuffle_from(r, x, Len(x) - 1)

\* random.seed(random_seed) at the entry of gen_sudoku_full
gen_seed(random_seed_arg, r) == random_seed(random_seed_arg)

RECURSIVE gen_loop(_, _)
\* the while loop of gen_sudoku_full from state st with generator state r
gen_loop(st, r) ==
    LET n0 == Shape0(st.g)
    IN  IF st.fault \/ st.i >= n0 * n0 THEN [st |-> st, rng |-> r]
        ELSE IF gen_a_lst(st) = << >> THEN gen_loop(gen_rollback(st), r)
        ELSE LET sh == shuffle(r, gen_a_lst(st))
             IN  gen_loop(gen_place(st, sh.lst), sh.rng)

\* gen_sudoku_full(array_size, random_seed) called with the generator in state r
gen_sudoku_full(n, random_seed_arg, r) ==
    IF n < 0
      THEN [err |-> "TypeError", ret |-> << >>, rng |-> r]
    ELSE IF NotSquared(n)
      THEN [err |-> "not int or squared", ret |-> << >>, rng |-> r]
    ELSE LET run == gen_loop([g |-> Zeros(n), lst |-> << >>, i |-> 0, fault |-> FALSE],
                             gen_seed(random_seed_arg, r))
         IN  [err |-> IF run.st.fault THEN "IndexError" ELSE "ok",
              ret |-> run.st.g,
              rng |-> run.rng]

(***************************************************************************)
(* gen_sudoku_puzzle                                                       *)
(***************************************************************************)
\* faulty variant: the product is rounded up
RatioCount_ceil(ratio, n0) ==
    (ratio[1] * n0 * n0 + ratio[2] - 1) \div ratio[2]

\* faulty variant: the limit is taken without the minimum of 1
carve_limit_no_min(ratio, n0) ==
    IF ratio = << >> THEN -1 ELSE (ratio[1] * n0 * n0) \div ratio[2]

\* a ratio is <<num, den>> (the float num/den); << >> is None
\* int(ratio * n0**2), exact for the ratios and sizes of the model
RatioCount(ratio, n0) == (ratio[1] * n0 * n0) \div ratio[2]

\* nmax_idx
carve_limit(ratio, n0) ==
    IF ratio = << >> THEN -1 ELSE Max({1, RatioCount(ratio, n0)})

\* faulty variant: the generator is left as the previous call left it
carve_seed_kept(random_seed_arg, r) == r

\* random.seed(random_seed) in gen_sudoku_puzzle
carve_seed(random_seed_arg, r) == random_seed(random_seed_arg)

\* the checks at the entry of gen_sudoku_puzzle
carve_check(g) ==
    LET n0 == Shape0(g)
    IN  IF Values(g) = {} THEN "zero-size array"
        ELSE IF Max(Values(g)) > n0 \/ Min(Values(g)) < 1 THEN "value overflow"
        ELSE IF \E x \in DOMAIN g :
                  Cardinality({g[x][y] : y \in DOMAIN g[x]}) # n0 THEN "inconsistent"
        ELSE "ok"

\* faulty variant: a position is cleared when no digit fits it
carve_accept_none(a_lst) == Len(a_lst) = 0

\* faulty variant: a position is cleared whenever some digit fits it
carve_accept_any(a_lst) == Len(a_lst) >= 1

\* faulty variant: a position that two digits fit is cleared as well
carve_accept_two(a_lst) == Len(a_lst) \in {1, 2}

\* len(a_lst[0]) == 1
carve_accept(a_lst) == Len(a_lst) = 1

\* faulty variant: the loop never stops early
carve_stop_never(nmax_idx) == FALSE

\* faulty variant: the limit is compared one step off
carve_stop_early(nmax_idx) == nmax_idx = 1

\* if nmax_idx == 0: break
carve_stop(nmax_idx) == nmax_idx = 0

RECURSIVE carve_loop(_, _, _)
\* for i in idx, from the k-th entry, on st = [arr, nmax_idx, err, removed]
\* (removed lists the positions cleared, in the order they were cleared)
carve_loop(st, idx, k) ==
    IF k > Len(idx) THEN st
    ELSE LET n0 == Shape0(st.arr)
             x == Mx(n0, idx[k])
             y == My(n0, idx[k])
             tmp == [st.arr EXCEPT ![x][y] = 0]
             a == available_digits(tmp, <<x, y>>)
         IN  IF a.err # "ok" THEN [st EXCEPT !.err = a.err]
             ELSE IF carve_accept(a.avail_digits[1])
               THEN LET cleared == [arr |-> tmp,
                                    nmax_idx |-> st.nmax_idx - 1,
                                    err |-> "ok",
                                    removed |-> Append(st.removed, idx[k])]
                    IN  IF carve_stop(cleared.nmax_idx) THEN cleared
                        ELSE carve_loop(cleared, idx, k + 1)
             ELSE carve_loop(st, idx, k + 1)

\* Arrays are objects: the argument of a call is object arg, and a.copy() is an
\* object of its own.
\* faulty variant: sudoku_array = sudoku_full, the argument itself
carve_work_alias(arg) == arg

\* sudoku_array = sudoku_full.copy(): the object the carver writes to
carve_work(arg) == arg + 1

\* gen_sudoku_puzzle(sudoku_full, max_removed_ratio, random_seed) called with
\* the generator in state r
gen_sudoku_puzzle(g, ratio, random_seed_arg, r) ==
    IF carve_check(g) # "ok"
      THEN [err |-> carve_check(g), ret |-> << >>, removed |-> << >>, rng |-> r]
    ELSE LET n0 == Shape0(g)
             sh == shuffle(carve_seed(random_seed_arg, r),
                           [p \in 1..(n0 * n0) |-> p - 1])
             run == carve_loop([arr |-> g, nmax_idx |-> carve_limit(ratio, n0),
                                err |-> "ok", removed |-> << >>],
                               sh.lst, 1)
         IN  [err |-> run.err, ret |-> run.arr, removed |-> run.removed,
              rng |-> sh.rng]

\* what the array handed to gen_sudoku_puzzle holds after the call res: the
\* cells written to sudoku_array are its own only if the two are one object
carve_arg_after(g, res) ==
    IF res.err = "ok" /\ carve_work(0) = 0 THEN res.ret ELSE g

Ratios == {<<k, RatioDen>> : k \in 0..RatioDen}

(***************************************************************************)
(* solve_sudoku                                                            *)
(***************************************************************************)
\* indices (0-based) of the entries of n_avail equal to m, ascending
solve_indices(n_avail, m) ==
    SortedSeq({j - 1 : j \in {q \in 1..Len(n_avail) : n_avail[q] = m}})

RECURSIVE solve_fill(_, _, _, _)
\* for idx in indices: sudoku_arr[pos_x[idx], pos_y[idx]] = avail_lst[idx][0]
solve_fill(arr, a, indices, k) ==
    IF k > Len(indices) THEN arr
    ELSE LET idx == indices[k] + 1
         IN  solve_fill([arr EXCEPT ![a.pos_x[idx]][a.pos_y[idx]] = a.avail_digits[idx][1]],
                        a, indices, k + 1)

\* faulty variant: the branch writes 0 in place of each candidate
solve_branch_values_zero(lst) == [j \in 1..Len(lst) |-> 0]

\* for val in avail_lst[idx]
solve_branch_values(lst) == lst

\* faulty variant: no position is branched on
solve_branch_cells_none(n_avail) == << >>

\* indices = [i for i, n in enumerate(n_avail) if n == min(n_avail)]
solve_branch_cells(n_avail) == solve_indices(n_avail, Min(Range(n_avail)))

\* faulty variant: the filled array is recorded but not returned as the solution
solve_finish_empty(arr, n0_zeros, n_zeros) ==
    [err |-> "ok", none |-> FALSE, solutions |-> << >>, arr |-> arr,
     record |-> <<[kind |-> "filled", count |-> n0_zeros - n_zeros, arr |-> arr]>>,
     calls |-> 0, depth |-> 0]

\* after the loop, with no sub-branch searching: sudoku_solutions = [sudoku_arr]
solve_finish(arr, n0_zeros, n_zeros) ==
    [err |-> "ok", none |-> FALSE, solutions |-> <<arr>>, arr |-> arr,
     record |-> <<[kind |-> "filled", count |-> n0_zeros - n_zeros, arr |-> arr]>>,
     calls |-> 0, depth |-> 0]

RECURSIVE solve_sudoku(_)
RECURSIVE solve_loop(_, _, _)
RECURSIVE solve_vals(_, _, _, _, _)
RECURSIVE solve_cells(_, _, _, _, _)

\* for val in avail_lst[idx], from the k-th value, on acc =
\* [err, solutions, record_idx, calls, depth]
solve_vals(arr, a, idx, k, acc) ==
    LET vals == solve_branch_values(a.avail_digits[idx])
    IN  IF k > Len(vals) \/ acc.err # "ok" THEN acc
        ELSE LET tmp == [arr EXCEPT ![a.pos_x[idx]][a.pos_y[idx]] = vals[k]]
                 sub == solve_sudoku(tmp)
             IN  solve_vals(arr, a, idx, k + 1,
                     [err |-> sub.err,
                      solutions |-> IF sub.none THEN acc.solutions
                                    ELSE acc.solutions \o sub.solutions,
                      record_idx |-> Append(acc.record_idx, sub.record),
                      calls |-> acc.calls + sub.calls,
                      depth |-> Max({acc.depth, 1 + sub.depth})])

\* for idx in indices, from the k-th index, on acc =
\* [err, solutions, record_indices, calls, depth]
solve_cells(arr, a, indices, k, acc) ==
    IF k > Len(indices) \/ acc.err # "ok" THEN acc
    ELSE LET one == solve_vals(arr, a, indices[k] + 1, 1,
                       [err |-> "ok", solutions |-> acc.solutions,
                        record_idx |-> << >>, calls |-> acc.calls,
                        depth |-> acc.depth])
         IN  solve_cells(arr, a, indices, k + 1,
                 [err |-> one.err,
                  solutions |-> one.solutions,
                  record_indices |-> Append(acc.record_indices, one.record_idx),
                  calls |-> one.calls,
                  depth |-> one.depth])

\* while n_zeros > 0, and what follows the loop.  The result is
\* [err, none, solutions, arr, record, calls, depth]: none says that None is
\* returned in place of the list; arr is sudoku_arr as the call leaves it;
\* calls counts the nested calls and depth the nesting.
solve_loop(arr, n0_zeros, n_zeros) ==
    IF n_zeros <= 0 THEN solve_finish(arr, n0_zeros, n_zeros)
    ELSE LET a == available_digits(arr, << >>)
             n_avail == [j \in 1..Len(a.avail_digits) |-> Len(a.avail_digits[j])]
         IN  IF a.err # "ok"
               THEN [err |-> a.err, none |-> FALSE, solutions |-> << >>,
                     arr |-> arr, record |-> << >>, calls |-> 0, depth |-> 0]
             ELSE IF Min(Range(n_avail)) = 0
               THEN [err |-> "ok", none |-> TRUE, solutions |-> << >>,
                     arr |-> arr,
                     record |-> <<[kind |-> "deadend",
                                   count |-> n_zeros - CountZeros(arr)]>>,
                     calls |-> 0, depth |-> 0]
             ELSE IF Min(Range(n_avail)) = 1
               THEN LET filled == solve_fill(arr, a, solve_indices(n_avail, 1), 1)
                    IN  solve_loop(filled, n0_zeros, CountZeros(filled))
             ELSE LET br == solve_cells(arr, a, solve_branch_cells(n_avail), 1,
                               [err |-> "ok", solutions |-> << >>,
                                record_indices |-> << >>, calls |-> 0,
                                depth |-> 0])
                  IN  [err |-> br.err, none |-> FALSE, solutions |-> br.solutions,
                       arr |-> arr,
                       record |-> <<[kind |-> "branch",
                                     count |-> n0_zeros - n_zeros,
                                     subs |-> br.record_indices]>>,
                       calls |-> br.calls, depth |-> br.depth]

\* sudoku_arr = sudoku_array.copy(): the object the solver writes to
solve_work(arg) == arg + 1

\* what the array handed to solve_sudoku holds after the call res
solve_arg_after(g, res) ==
    IF solve_work(0) = 0 THEN res.arr ELSE g

solve_sudoku(sudoku_array_arg) ==
    LET r == solve_loop(sudoku_array_arg, CountZeros(sudoku_array_arg),
                        CountZeros(sudoku_array_arg))
    IN  [r EXCEPT !.calls = r.calls + 1]

(***************************************************************************)
(* gen_customized_puzzle                                                   *)
(***************************************************************************)
\* faulty variant: the difficulty is taken upside down
custom_ratio_inverted(n, difficulty, puzzle_max) ==
    <<(difficulty[2] - difficulty[1]) * CountZeros(puzzle_max),
      difficulty[2] * n * n>>

\* a difficulty is a fraction <<num, den>>
\* removed_ratio = difficulty * max_removed_ratio, with
\* max_removed_ratio = np.count_nonzero(puzzle_max == 0) / array_size ** 2
custom_ratio(n, difficulty, puzzle_max) ==
    <<difficulty[1] * CountZeros(puzzle_max), difficulty[2] * n * n>>

\* return c_puzzle, c_solution
\* (c_solution is the array both carving runs were handed)
custom_return(solution, carved) ==
    [err |-> carved.err, c_puzzle |-> carved.ret,
     c_solution |-> carve_arg_after(solution, carved),
     rng |-> carved.rng]

\* c_puzzle = gen_sudoku_puzzle(c_solution, max_removed_ratio=removed_ratio, ...)
custom_second(n, random_seed_arg, difficulty, solution, puzzle_max) ==
    custom_return(solution,
        gen_sudoku_puzzle(solution, custom_ratio(n, difficulty, puzzle_max.ret),
                          random_seed_arg, puzzle_max.rng))

\* the second carving run, given the results of the first two calls
custom_carve(n, random_seed_arg, difficulty, full, puzzle_max) ==
    IF puzzle_max.err # "ok"
      THEN [err |-> puzzle_max.err, c_puzzle |-> << >>, c_solution |-> << >>,
            rng |-> puzzle_max.rng]
    ELSE IF n = 0
      THEN [err |-> "ZeroDivisionError", c_puzzle |-> << >>, c_solution |-> << >>,
            rng |-> puzzle_max.rng]
    ELSE custom_second(n, random_seed_arg, difficulty,
                       carve_arg_after(full.ret, puzzle_max), puzzle_max)

\* the first carving run (no limit), given the result of gen_sudoku_full
custom_max(n, random_seed_arg, difficulty, full) ==
    IF full.err # "ok"
      THEN [err |-> full.err, c_puzzle |-> << >>, c_solution |-> << >>,
            rng |-> full.rng]
    ELSE custom_carve(n, random_seed_arg, difficulty, full,
                      gen_sudoku_puzzle(full.ret, << >>, random_seed_arg, full.rng))

\* gen_customized_puzzle(array_size, random_seed, difficulty) called with the
\* generator in state r
gen_customized_puzzle(n, random_seed_arg, difficulty, r) ==
    custom_max(n, random_seed_arg, difficulty,
               gen_sudoku_full(n, random_seed_arg, r))

(***************************************************************************)
(* The generator and the carver, step by step.                             *)
(***************************************************************************)
GenState == [g |-> sudoku_full, lst |-> avail_lst, i |-> i, fault |-> FALSE]

\* entry: the size check, then the locals
GenEnter ==
    /\ pc = "gen_call"
    /\ IF array_size < 0
         THEN /\ pc' = "gen_typeerror"
              /\ UNCHANGED <<sudoku_full, avail_lst, i>>
       ELSE IF NotSquared(array_size)
         THEN /\ pc' = "gen_raise"
              /\ UNCHANGED <<sudoku_full, avail_lst, i>>
         ELSE /\ pc' = "gen_loop"
              /\ sudoku_full' = Zeros(array_size)
              /\ avail_lst' = << >>
              /\ i' = 0
    /\ UNCHANGED <<array_size, sudoku_array, carve_args, rng, ref, ret,
                   puzzle_in, solved, random_seed_v, digits_in, digits_out,
                   procs, frames, play_vars>>

\* one iteration with candidates: random.shuffle leaves any ordering
GenForward ==
    /\ pc = "gen_loop"
    /\ i < array_size * array_size
    /\ \E a_lst \in {gen_a_lst(GenState)} :
         /\ a_lst # << >>
         /\ \E shuffled \in Perms(a_lst) :
              \E st \in {gen_place(GenState, shuffled)} :
                 /\ sudoku_full' = st.g
                 /\ avail_lst' = st.lst
                 /\ i' = st.i
    /\ UNCHANGED <<pc, array_size, sudoku_array, carve_args, rng, ref, ret,
                   puzzle_in, solved, random_seed_v, digits_in, digits_out,
                   procs, frames, play_vars>>

\* one iteration at a dead end
GenRollback ==
    /\ pc = "gen_loop"
    /\ i < array_size * array_size
    /\ gen_a_lst(GenState) = << >>
    /\ LET st == gen_rollback(GenState)
       IN  /\ sudoku_full' = st.g
           /\ avail_lst' = st.lst
           /\ i' = st.i
           /\ pc' = IF st.fault THEN "gen_fault" ELSE "gen_loop"
    /\ UNCHANGED <<array_size, sudoku_array, carve_args, rng, ref, ret,
                   puzzle_in, solved, random_seed_v, digits_in, digits_out,
                   procs, frames, play_vars>>

\* the loop ends: return sudoku_full (the other locals are dropped)
GenReturn ==
    /\ pc = "gen_loop"
    /\ i >= array_size * array_size
    /\ pc' = "gen_done"
    /\ avail_lst' = << >>
    /\ i' = 0
    /\ UNCHANGED <<array_size, sudoku_full, sudoku_array, carve_args, rng, ref,
                   ret, puzzle_in, solved, random_seed_v, digits_in, digits_out,
                   procs, frames, play_vars>>

\* the grid is handed to the carver
GenCarve ==
    /\ pc \in {"gen_done", "carve_call"}
    /\ \E seed \in Seeds, ratio \in Ratios \cup {<< >>} :
         LET r == gen_sudoku_puzzle(sudoku_full, ratio, seed, rng)
         IN  /\ pc' = IF r.err = "ok" THEN "carve_done" ELSE "carve_raise"
             /\ sudoku_array' = r.ret
             /\ sudoku_full' = carve_arg_after(sudoku_full, r)
             /\ carve_args' = <<ratio, seed>>
             /\ rng' = r.rng
    /\ UNCHANGED <<array_size, avail_lst, i, ref, ret, puzzle_in, solved,
                   random_seed_v, digits_in, digits_out,
                   procs, frames, play_vars>>

NoCall == [op |-> "none", n |-> 0, full |-> << >>, ratio |-> << >>, seed |-> 0,
           err |-> "ok", result |-> << >>, first |-> FALSE]

\* the sizes handed to gen_sudoku_full: a negative one, 0 and 1..MaxSize
GenSizes == (-1)..MaxSize

GenInit ==
    /\ pc = "gen_call"
    /\ array_size \in GenSizes
    /\ sudoku_full = << >>
    /\ avail_lst = << >>
    /\ i = 0
    /\ sudoku_array = << >>
    /\ carve_args = << >>
    /\ rng = 0
    /\ ref = NoCall
    /\ ret = NoCall
    /\ puzzle_in = << >>
    /\ solved = << >>
    /\ random_seed_v = 0
    /\ digits_in = << >>
    /\ digits_out = << >>
    /\ procs = << >>
    /\ frames = << >>
    /\ c_puzzle = << >>
    /\ c_solution = << >>
    /\ puzzle_updated = << >>
    /\ filling_lst = << >>
    /\ filling_new = << >>
    /\ p_input = << >>
    /\ difficulty_v = << >>
    /\ n_hints = 0

GenNext == GenEnter \/ GenForward \/ GenRollback \/ GenReturn \/ GenCarve

SpecGen == GenInit /\ [][GenNext]_vars

\* a call of gen_sudoku_full that has started keeps running
GenRun == GenEnter \/ GenForward \/ GenRollback \/ GenReturn

SpecGenFair == GenInit /\ [][GenNext]_vars /\ WF_vars(GenRun)

(***************************************************************************)
(* Two calls running as two processes of one interpreter.  procs[p] holds  *)
(* the locals of the call of process p; rng, the generator of module       *)
(* random, is the one object both calls use.  A step is the seeding, one   *)
(* shuffle, or the writes to the arrays of one loop iteration.             *)
(***************************************************************************)
ParProcs == {1, 2}

\* the locals of gen_sudoku_full(array_size, random_seed) at its entry
ParFull(n, seed) ==
    [op |-> "full", pc |-> "seed", random_seed |-> seed,
     max_removed_ratio |-> << >>, arg |-> n,
     sudoku_full |-> Zeros(n), avail_lst |-> << >>, i |-> 0, a_lst |-> << >>,
     idx |-> << >>, k |-> 1, run |-> << >>]

\* the locals of gen_sudoku_puzzle(sudoku_full, max_removed_ratio, random_seed)
\* at its entry, for a grid that passes the tests of lines 113-120
ParPuzzle(full, ratio, seed) ==
    [op |-> "puzzle", pc |-> "seed", random_seed |-> seed,
     max_removed_ratio |-> ratio, arg |-> full,
     sudoku_full |-> full, avail_lst |-> << >>, i |-> 0, a_lst |-> << >>,
     idx |-> << >>, k |-> 1,
     run |-> [arr |-> full, nmax_idx |-> carve_limit(ratio, Shape0(full)),
              err |-> "ok", removed |-> << >>]]

\* the generator's loop state of a process
ParGenState(c) ==
    [g |-> c.sudoku_full, lst |-> c.avail_lst, i |-> c.i, fault |-> FALSE]

\* the sizes and ratios of the concurrent calls
ParSizes == {1, 4}

ParRatios == {<< >>, <<1, RatioDen>>}

ParCalls ==
    {ParFull(n, seed) : n \in ParSizes, seed \in Seeds}
    \cup {ParPuzzle(gen_sudoku_full(4, 0, 0).ret, ratio, seed) :
             ratio \in ParRatios, seed \in Seeds}

\* the two calls: any two of them, but for two generator calls of the
\* largest size at once
ParPairs ==
    {pr \in [ParProcs -> ParCalls] :
        \E p \in ParProcs : pr[p].op = "puzzle" \/ pr[p].arg = 1}

\* what the steps of the processes leave alone
par_frame == <<pc, array_size, sudoku_full, avail_lst, i, sudoku_array,
               carve_args, ref, ret, puzzle_in, solved, random_seed_v,
               digits_in, digits_out, frames, play_vars>>

\* random.seed(random_seed) of gen_sudoku_full
ParGenSeed(p) ==
    /\ procs[p].op = "full" /\ procs[p].pc = "seed"
    /\ rng' = gen_seed(procs[p].random_seed, rng)
    /\ procs' = [procs EXCEPT ![p].pc = "loop"]
    /\ UNCHANGED par_frame

\* available_digits and random.shuffle(a_lst) of one iteration
ParGenShuffle(p) ==
    LET c == procs[p]
    IN  /\ c.op = "full" /\ c.pc = "loop"
        /\ c.i < c.arg * c.arg
        /\ gen_a_lst(ParGenState(c)) # << >>
        /\ LET sh == shuffle(rng, gen_a_lst(ParGenState(c)))
           IN  /\ rng' = sh.rng
               /\ procs' = [procs EXCEPT ![p].a_lst = sh.lst, ![p].pc = "write"]
        /\ UNCHANGED par_frame

\* the cell write and the push that follow the shuffle
ParGenWrite(p) ==
    LET c == procs[p]
    IN  /\ c.op = "full" /\ c.pc = "write"
        /\ LET st == gen_place(ParGenState(c), c.a_lst)
           IN  procs' = [procs EXCEPT ![p].sudoku_full = st.g,
                                      ![p].avail_lst = st.lst,
                                      ![p].i = st.i,
                                      ![p].a_lst = << >>,
                                      ![p].pc = "loop"]
        /\ UNCHANGED <<rng, par_frame>>

\* one iteration at a dead end
ParGenRollback(p) ==
    LET c == procs[p]
    IN  /\ c.op = "full" /\ c.pc = "loop"
        /\ c.i < c.arg * c.arg
        /\ gen_a_lst(ParGenState(c)) = << >>
        /\ LET st == gen_rollback(ParGenState(c))
           IN  procs' = [procs EXCEPT ![p].sudoku_full = st.g,
                                      ![p].avail_lst = st.lst,
                                      ![p].i = st.i,
                                      ![p].pc = IF st.fault THEN "fault" ELSE "loop"]
        /\ UNCHANGED <<rng, par_frame>>

\* return sudoku_full
ParGenReturn(p) ==
    LET c == procs[p]
    IN  /\ c.op = "full" /\ c.pc = "loop"
        /\ c.i >= c.arg * c.arg
        /\ procs' = [procs EXCEPT ![p].pc = "done"]
        /\ UNCHANGED <<rng, par_frame>>

\* random.seed(random_seed) of gen_sudoku_puzzle
ParCarveSeed(p) ==
    /\ procs[p].op = "puzzle" /\ procs[p].pc = "seed"
    /\ rng' = carve_seed(procs[p].random_seed, rng)
    /\ procs' = [procs EXCEPT ![p].pc = "shuffle"]
    /\ UNCHANGED par_frame

\* random.shuffle(idx)
ParCarveShuffle(p) ==
    LET c == procs[p]
        n0 == Shape0(c.sudoku_full)
    IN  /\ c.op = "puzzle" /\ c.pc = "shuffle"
        /\ LET sh == shuffle(rng, [q \in 1..(n0 * n0) |-> q - 1])
           IN  /\ rng' = sh.rng
               /\ procs' = [procs EXCEPT ![p].idx = sh.lst, ![p].pc = "loop"]
        /\ UNCHANGED par_frame

\* one iteration of for i in idx
ParCarveStep(p) ==
    LET c == procs[p]
    IN  /\ c.op = "puzzle" /\ c.pc = "loop"
        /\ c.k <= Len(c.idx)
        /\ LET st == carve_loop(c.run, <<c.idx[c.k]>>, 1)
           IN  procs' = [procs EXCEPT
                    ![p].run = st,
                    ![p].k = c.k + 1,
                    ![p].pc = IF st.err # "ok" THEN "raise"
                              ELSE IF st.nmax_idx # c.run.nmax_idx
                                      /\ carve_stop(st.nmax_idx) THEN "done"
                              ELSE "loop"]
        /\ UNCHANGED <<rng, par_frame>>

\* return sudoku_array
ParCarveReturn(p) ==
    LET c == procs[p]
    IN  /\ c.op = "puzzle" /\ c.pc = "loop"
        /\ c.k > Len(c.idx)
        /\ procs' = [procs EXCEPT ![p].pc = "done"]
        /\ UNCHANGED <<rng, par_frame>>

ParInit ==
    /\ pc = "par"
    /\ array_size = 0
    /\ sudoku_full = << >>
    /\ avail_lst = << >>
    /\ i = 0
    /\ sudoku_array = << >>
    /\ carve_args = << >>
    /\ rng = 0
    /\ ref = NoCall
    /\ ret = NoCall
    /\ puzzle_in = << >>
    /\ solved = << >>
    /\ random_seed_v = 0
    /\ digits_in = << >>
    /\ digits_out = << >>
    /\ procs \in ParPairs
    /\ frames = << >>
    /\ c_puzzle = << >>
    /\ c_solution = << >>
    /\ puzzle_updated = << >>
    /\ filling_lst = << >>
    /\ filling_new = << >>
    /\ p_input = << >>
    /\ difficulty_v = << >>
    /\ n_hints = 0

ParNext ==
    \E p \in ParProcs :
        \/ ParGenSeed(p)
        \/ ParGenShuffle(p)
        \/ ParGenWrite(p)
        \/ ParGenRollback(p)
        \/ ParGenReturn(p)
        \/ ParCarveSeed(p)
        \/ ParCarveShuffle(p)
        \/ ParCarveStep(p)
        \/ ParCarveReturn(p)

SpecPar == ParInit /\ [][ParNext]_vars

(***************************************************************************)
(* A session of calls.  Every call runs to its end before the next starts; *)
(* ret keeps the latest call and its result, ref one earlier call.         *)
(***************************************************************************)
Call(op, n, full, ratio, seed, err, result) ==
    [op |-> op, n |-> n, full |-> full, ratio |-> ratio, seed |-> seed,
     err |-> err, result |-> result, first |-> (ref.op = "none")]

\* the sizes gen_sudoku_full accepts that give a grid with cells
SquareSizes == {n \in 1..MaxSize : ~NotSquared(n)}

\* the complete grid a call returned or was given
KnownFull(c) ==
    IF c.op = "none" \/ c.err # "ok" THEN {}
    ELSE IF c.op = "full" THEN {c.result}
    ELSE {c.full}

\* the puzzle a call returned
KnownPuzzle(c) ==
    IF c.op \in {"puzzle", "custom"} /\ c.err = "ok" THEN {c} ELSE {}

Returned(c) ==
    /\ ret' = c
    /\ ref' \in (IF ref = NoCall THEN {NoCall, c} ELSE {ref})
    /\ UNCHANGED <<pc, array_size, sudoku_full, avail_lst, i, sudoku_array,
                   carve_args, puzzle_in, solved, random_seed_v, digits_in, digits_out,
                   procs, frames, play_vars>>

CallFull ==
    /\ pc = "session"
    /\ \E n \in SquareSizes, seed \in Seeds :
         LET r == gen_sudoku_full(n, seed, rng)
         IN  /\ rng' = r.rng
             /\ Returned(Call("full", n, << >>, << >>, seed, r.err, r.ret))

\* the carver is called on the grid of the remembered call, and before a call
\* is remembered on the grid of the latest
CallPuzzle ==
    /\ pc = "session"
    /\ \E g \in (IF ref = NoCall THEN KnownFull(ret) ELSE KnownFull(ref)),
          ratio \in Ratios \cup {<< >>}, seed \in Seeds :
         LET r == gen_sudoku_puzzle(g, ratio, seed, rng)
         IN  /\ rng' = r.rng
             /\ Returned(Call("puzzle", Shape0(g), g, ratio, seed, r.err, r.ret))

Init ==
    /\ pc = "session"
    /\ array_size = 0
    /\ sudoku_full = << >>
    /\ avail_lst = << >>
    /\ i = 0
    /\ sudoku_array = << >>
    /\ carve_args = << >>
    /\ rng \in Seeds
    /\ ref = NoCall
    /\ ret = NoCall
    /\ puzzle_in = << >>
    /\ solved = << >>
    /\ random_seed_v = 0
    /\ digits_in = << >>
    /\ digits_out = << >>
    /\ procs = << >>
    /\ frames = << >>
    /\ c_puzzle = << >>
    /\ c_solution = << >>
    /\ puzzle_updated = << >>
    /\ filling_lst = << >>
    /\ filling_new = << >>
    /\ p_input = << >>
    /\ difficulty_v = << >>
    /\ n_hints = 0

Next == CallFull \/ CallPuzzle

Spec == Init /\ [][Next]_vars

(***************************************************************************)
(* The assembler: puzzles of every difficulty built for one size and seed, *)
(* and the solver run on them.                                             *)
(***************************************************************************)
CallCustomized ==
    /\ pc = "assemble"
    /\ \E difficulty \in Ratios :
         LET r == gen_customized_puzzle(array_size, random_seed_v, difficulty, rng)
         IN  /\ rng' = r.rng
             /\ Returned(Call("custom", array_size, r.c_solution, difficulty, random_seed_v,
                              r.err,
                              r.c_puzzle))

CallSolve ==
    /\ pc = "assemble"
    /\ \E c \in KnownPuzzle(ret) :
         LET r == solve_sudoku(c.result)
         IN  /\ rng' = rng
             /\ Returned(Call("solve", c.n, c.full, c.result, << >>, r.err,
                              [none |-> r.none, solutions |-> r.solutions,
                               arg |-> solve_arg_after(c.result, r)]))

AsmInit ==
    /\ pc = "assemble"
    /\ array_size \in SquareSizes
    /\ sudoku_full = << >>
    /\ avail_lst = << >>
    /\ i = 0
    /\ sudoku_array = << >>
    /\ carve_args = << >>
    /\ rng \in Seeds
    /\ ref = NoCall
    /\ ret = NoCall
    /\ puzzle_in = << >>
    /\ solved = << >>
    /\ random_seed_v \in Seeds
    /\ digits_in = << >>
    /\ digits_out = << >>
    /\ procs = << >>
    /\ frames = << >>
    /\ c_puzzle = << >>
    /\ c_solution = << >>
    /\ puzzle_updated = << >>
    /\ filling_lst = << >>
    /\ filling_new = << >>
    /\ p_input = << >>
    /\ difficulty_v = << >>
    /\ n_hints = 0

AsmNext == CallCustomized \/ CallSolve

SpecAssemble == AsmInit /\ [][AsmNext]_vars

(***************************************************************************)
(* The solver on hand-built puzzles: the first rows of a complete grid,    *)
(* and every valid partial filling of its last FreeCells positions.        *)
(***************************************************************************)
Grid(rows) ==
    [x \in 0..(Len(rows) - 1) |->
        [y \in 0..(Len(rows[x + 1]) - 1) |-> rows[x + 1][y + 1]]]

SolveBases ==
    { Grid(<< <<1>> >>),
      Grid(<< <<1, 2, 3, 4>>, <<3, 4, 1, 2>>, <<2, 1, 4, 3>>, <<4, 3, 2, 1>> >>),
      Grid(<< <<1, 2, 3, 4>>, <<3, 4, 2, 1>>, <<2, 1, 4, 3>>, <<4, 3, 1, 2>> >>) }

\* the positions that share a row, a column or a box with (x, y)
Peers(n0, x, y) ==
    LET n1 == ISqrt(n0)
    IN  {q \in (0..(n0 - 1)) \X (0..(n0 - 1)) :
           /\ q # <<x, y>>
           /\ \/ q[1] = x
              \/ q[2] = y
              \/ (q[1] \div n1 = x \div n1 /\ q[2] \div n1 = y \div n1)}

\* no row, column or box holds a non-zero value twice
ValidPartial(g) ==
    LET n0 == Shape0(g)
    IN  \A x \in 0..(n0 - 1), y \in 0..(n0 - 1) :
          g[x][y] # 0 => \A q \in Peers(n0, x, y) : g[q[1]][q[2]] # g[x][y]

\* the rows, the columns and the boxes of a grid of side n0, as sets of positions
Units(n0) ==
    LET n1 == ISqrt(n0)
        side == 0..(n0 - 1)
    IN  {{<<x, y>> : y \in side} : x \in side}
        \cup {{<<x, y>> : x \in side} : y \in side}
        \cup {{q \in side \X side : q[1] \div n1 = bx /\ q[2] \div n1 = by} :
               bx \in 0..(n1 - 1), by \in 0..(n1 - 1)}

\* every row, column and box holds each of 1..n0 exactly once
CompleteValid(g) ==
    /\ \A x \in DOMAIN g : DOMAIN g[x] = DOMAIN g
    /\ \A u \in Units(Shape0(g)), v \in 1..Shape0(g) :
          Cardinality({q \in u : g[q[1]][q[2]] = v}) = 1

\* g holds puzzle's value wherever puzzle holds one
Agrees(g, puzzle) ==
    /\ DOMAIN g = DOMAIN puzzle
    /\ \A x \in DOMAIN puzzle : \A y \in DOMAIN puzzle[x] :
          puzzle[x][y] # 0 => g[x][y] = puzzle[x][y]

RECURSIVE Completions(_, _)
\* the complete valid grids that agree with the valid partial grid g, filled in
\* from position p on
Completions(g, p) ==
    LET n0 == Shape0(g)
        x == p \div n0
        y == p % n0
    IN  IF p >= n0 * n0 THEN {g}
        ELSE IF g[x][y] # 0 THEN Completions(g, p + 1)
        ELSE UNION { Completions([g EXCEPT ![x][y] = v], p + 1) :
                     v \in {w \in 1..n0 :
                              \A q \in Peers(n0, x, y) : g[q[1]][q[2]] # w} }

RECURSIVE Fills(_, _, _)
\* the grids that agree with g before position p and hold, from p on, 0 or any
\* value of vals that repeats no value of a peer
Fills(g, p, vals) ==
    LET n0 == Shape0(g)
        x == p \div n0
        y == p % n0
    IN  IF p >= n0 * n0 THEN {g}
        ELSE UNION { Fills([g EXCEPT ![x][y] = v], p + 1, vals) :
                     v \in {w \in vals :
                              w = 0 \/ \A q \in Peers(n0, x, y) : g[q[1]][q[2]] # w} }

\* g with every position from p on emptied
ClearedFrom(g, p) ==
    LET n0 == Shape0(g)
    IN  [x \in DOMAIN g |-> [y \in DOMAIN g[x] |->
            IF x * n0 + y >= p THEN 0 ELSE g[x][y]]]

FirstFree(g) == Max({0, Shape0(g) * Shape0(g) - FreeCells})

SolveInputs ==
    UNION { Fills(ClearedFrom(b, FirstFree(b)), FirstFree(b), 0..Shape0(b)) :
            b \in SolveBases }

SolveCall ==
    /\ pc = "solve_call"
    /\ solved' = solve_sudoku(puzzle_in)
    /\ puzzle_in' = solve_arg_after(puzzle_in, solved')
    /\ pc' = IF solved'.err = "ok" THEN "solve_done" ELSE "solve_raise"
    /\ UNCHANGED <<array_size, sudoku_full, avail_lst, i, sudoku_array, carve_args,
                   rng, ref, ret, random_seed_v, digits_in, digits_out,
                   procs, frames, play_vars>>

SolveInit ==
    /\ pc = "solve_call"
    /\ array_size = 0
    /\ sudoku_full = << >>
    /\ avail_lst = << >>
    /\ i = 0
    /\ sudoku_array = << >>
    /\ carve_args = << >>
    /\ rng = 0
    /\ ref = NoCall
    /\ ret = NoCall
    /\ puzzle_in \in SolveInputs
    /\ solved = << >>
    /\ random_seed_v = 0
    /\ digits_in = << >>
    /\ digits_out = << >>
    /\ procs = << >>
    /\ frames = << >>
    /\ c_puzzle = << >>
    /\ c_solution = << >>
    /\ puzzle_updated = << >>
    /\ filling_lst = << >>
    /\ filling_new = << >>
    /\ p_input = << >>
    /\ difficulty_v = << >>
    /\ n_hints = 0

SolveNext == SolveCall

SpecSolve == SolveInit /\ [][SolveNext]_vars

(***************************************************************************)
(* available_digits called on its own: empty grids, grids that are not     *)
(* square, grids with cells of any value, and any position or none.        *)
(***************************************************************************)
\* an array of n rows and m columns of zeros
Rect(n, m) == [x \in 0..(n - 1) |-> [y \in 0..(m - 1) |-> 0]]

RECURSIVE AnyFills(_, _, _)
\* the grids that agree with g before position p and hold any of vals from p on
AnyFills(g, p, vals) ==
    LET n0 == Shape0(g)
    IN  IF p >= n0 * n0 THEN {g}
        ELSE UNION { AnyFills([g EXCEPT ![p \div n0][p % n0] = v], p + 1, vals) :
                     v \in vals }

DigitsGrids ==
    {Zeros(n) : n \in 0..MaxDigitsSide}
    \cup {Rect(4, 3), Rect(1, 4), Rect(2, 1)}
    \cup UNION { AnyFills(b, Max({0, Shape0(b) * Shape0(b) - DigitsFree}),
                          0..(Shape0(b) + 1)) : b \in SolveBases }

\* no position, or a position with coordinates in and around the grid
DigitsPositions(g) ==
    {<< >>} \cup ((-1)..Shape0(g)) \X ((-1)..Shape0(g))

DigitsCall ==
    /\ pc = "digits_call"
    /\ digits_out' = available_digits(digits_in.g, digits_in.pos)
    /\ pc' = IF digits_out'.err = "ok" THEN "digits_done" ELSE "digits_raise"
    /\ UNCHANGED <<array_size, sudoku_full, avail_lst, i, sudoku_array, carve_args,
                   rng, ref, ret, puzzle_in, solved, random_seed_v, digits_in,
                   procs, frames, play_vars>>

DigitsInit ==
    /\ pc = "digits_call"
    /\ array_size = 0
    /\ sudoku_full = << >>
    /\ avail_lst = << >>
    /\ i = 0
    /\ sudoku_array = << >>
    /\ carve_args = << >>
    /\ rng = 0
    /\ ref = NoCall
    /\ ret = NoCall
    /\ puzzle_in = << >>
    /\ solved = << >>
    /\ random_seed_v = 0
    /\ \E g \in DigitsGrids : \E pos \in DigitsPositions(g) :
          digits_in = [g |-> g, pos |-> pos]
    /\ digits_out = << >>
    /\ procs = << >>
    /\ frames = << >>
    /\ c_puzzle = << >>
    /\ c_solution = << >>
    /\ puzzle_updated = << >>
    /\ filling_lst = << >>
    /\ filling_new = << >>
    /\ p_input = << >>
    /\ difficulty_v = << >>
    /\ n_hints = 0

DigitsNext == DigitsCall

SpecDigits == DigitsInit /\ [][DigitsNext]_vars

(***************************************************************************)
(* gen_sudoku_puzzle called on grids of any content: rows that are         *)
(* permutations, rows that repeat a value, hold a 0 or a value above N.    *)
(***************************************************************************)
CarveRows ==
    { <<1, 2, 3, 4>>, <<3, 4, 1, 2>>, <<2, 1, 4, 3>>, <<4, 3, 2, 1>>,
      <<2, 3, 4, 1>>, <<1, 1, 3, 4>>, <<0, 2, 3, 4>>, <<1, 2, 3, 5>> }

CarveGrids ==
    { Grid(<< <<1, 2, 3, 4>>, r1, r2, r3 >>) : r1, r2, r3 \in CarveRows }
    \cup { Grid(<< <<v>> >>) : v \in 0..2 }
    \cup { Grid(<< <<1, 2>>, <<2, 1>> >>), Grid(<< <<1, 2>>, <<1, 2>> >>) }

CarveInit ==
    /\ pc = "carve_call"
    /\ sudoku_full \in CarveGrids
    /\ array_size = Shape0(sudoku_full)
    /\ avail_lst = << >>
    /\ i = 0
    /\ sudoku_array = << >>
    /\ carve_args = << >>
    /\ rng = 0
    /\ ref = NoCall
    /\ ret = NoCall
    /\ puzzle_in = << >>
    /\ solved = << >>
    /\ random_seed_v = 0
    /\ digits_in = << >>
    /\ digits_out = << >>
    /\ procs = << >>
    /\ frames = << >>
    /\ c_puzzle = << >>
    /\ c_solution = << >>
    /\ puzzle_updated = << >>
    /\ filling_lst = << >>
    /\ filling_new = << >>
    /\ p_input = << >>
    /\ difficulty_v = << >>
    /\ n_hints = 0

CarveNext == GenCarve

SpecCarve == CarveInit /\ [][CarveNext]_vars

\* the puzzle the carver returned is handed to the solver
CarveSolve ==
    /\ pc = "carve_done"
    /\ puzzle_in' = sudoku_array
    /\ solved' = solve_sudoku(sudoku_array)
    /\ pc' = IF solved'.err = "ok" THEN "carve_solved" ELSE "carve_solve_raise"
    /\ UNCHANGED <<array_size, sudoku_full, avail_lst, i, sudoku_array, carve_args,
                   rng, ref, ret, random_seed_v, digits_in, digits_out,
                   procs, frames, play_vars>>

CarveSolveNext == GenCarve \/ CarveSolve

SpecCarveSolve == CarveInit /\ [][CarveSolveNext]_vars

(***************************************************************************)
(* The solver on arrays of any shape and content, with and without empty   *)
(* cells.                                                                  *)
(***************************************************************************)
SolveAnyInputs ==
    UNION { AnyFills(b, Max({0, Shape0(b) * Shape0(b) - DigitsFree}),
                     0..(Shape0(b) + 1)) : b \in SolveBases }
    \cup AnyFills(Rect(2, 2), 0, 0..2)
    \cup {Rect(4, 3), Rect(1, 4)}

SolveAnyInit ==
    /\ pc = "solve_call"
    /\ array_size = 0
    /\ sudoku_full = << >>
    /\ avail_lst = << >>
    /\ i = 0
    /\ sudoku_array = << >>
    /\ carve_args = << >>
    /\ rng = 0
    /\ ref = NoCall
    /\ ret = NoCall
    /\ puzzle_in \in SolveAnyInputs
    /\ solved = << >>
    /\ random_seed_v = 0
    /\ digits_in = << >>
    /\ digits_out = << >>
    /\ procs = << >>
    /\ frames = << >>
    /\ c_puzzle = << >>
    /\ c_solution = << >>
    /\ puzzle_updated = << >>
    /\ filling_lst = << >>
    /\ filling_new = << >>
    /\ p_input = << >>
    /\ difficulty_v = << >>
    /\ n_hints = 0

SolveAnyNext == SolveCall

SpecSolveAny == SolveAnyInit /\ [][SolveAnyNext]_vars

(***************************************************************************)
(* solve_sudoku step by step.  frames is the stack of active calls; a      *)
(* frame holds the locals of its call and where the call stands: at the    *)
(* head of the while loop ("loop") or inside the two for loops of the      *)
(* sub-branch search ("branch", at value vi of position indices[ci]).      *)
(***************************************************************************)
\* the locals of solve_sudoku(sudoku_array) before the loop
SolveFrame(sudoku_array_arg) ==
    [sudoku_arr |-> sudoku_array_arg,
     n0_zeros |-> CountZeros(sudoku_array_arg),
     n_zeros |-> CountZeros(sudoku_array_arg),
     sudoku_solutions |-> << >>,
     at |-> "loop", a |-> << >>, indices |-> << >>, ci |-> 1, vi |-> 1]

SolveTop == frames[Len(frames)]

\* n_avail = [len(a) for a in avail_lst]
SolveNAvail(a) == [j \in 1..Len(a.avail_digits) |-> Len(a.avail_digits[j])]

\* the caller's frame once a nested call has returned res = [none, solutions]:
\* the solutions are added and the for loops move on
SolveResume(f, res) ==
    LET vals == solve_branch_values(f.a.avail_digits[f.indices[f.ci] + 1])
        sols == IF res.none THEN f.sudoku_solutions
                ELSE f.sudoku_solutions \o res.solutions
    IN  IF f.vi < Len(vals)
          THEN [f EXCEPT !.sudoku_solutions = sols, !.vi = f.vi + 1]
          ELSE [f EXCEPT !.sudoku_solutions = sols, !.ci = f.ci + 1, !.vi = 1]

\* the innermost call returns res
SolveDeliver(res) ==
    IF Len(frames) = 1
      THEN /\ frames' = << >>
           /\ solved' = [err |-> "ok", none |-> res.none, solutions |-> res.solutions]
           /\ pc' = "solve_done"
      ELSE /\ frames' = [SubSeq(frames, 1, Len(frames) - 1)
                            EXCEPT ![Len(frames) - 1] =
                                SolveResume(frames[Len(frames) - 1], res)]
           /\ UNCHANGED <<solved, pc>>

solve_frame == <<array_size, sudoku_full, avail_lst, i, sudoku_array, carve_args,
                 rng, ref, ret, puzzle_in, random_seed_v, digits_in, digits_out,
                 procs, play_vars>>

\* the call: sudoku_arr = sudoku_array.copy() and the counters
SolveEnter ==
    /\ pc = "solve_call"
    /\ frames' = <<SolveFrame(puzzle_in)>>
    /\ pc' = "solve_run"
    /\ UNCHANGED <<solved, solve_frame>>

\* a loop iteration that raises: available_digits rejects the array
SolveRaise ==
    /\ pc = "solve_run"
    /\ SolveTop.at = "loop" /\ SolveTop.n_zeros > 0
    /\ \E a \in {available_digits(SolveTop.sudoku_arr, << >>)} :
         /\ a.err # "ok"
         /\ frames' = << >>
         /\ solved' = [err |-> a.err, none |-> FALSE, solutions |-> << >>]
         /\ pc' = "solve_raise"
    /\ UNCHANGED solve_frame

\* a loop iteration with min(n_avail) == 1: fill every single-candidate position
SolveFill ==
    /\ pc = "solve_run"
    /\ SolveTop.at = "loop" /\ SolveTop.n_zeros > 0
    /\ \E a \in {available_digits(SolveTop.sudoku_arr, << >>)} :
         /\ a.err = "ok"
         /\ Min(Range(SolveNAvail(a))) = 1
         /\ \E filled \in {solve_fill(SolveTop.sudoku_arr, a,
                                       solve_indices(SolveNAvail(a), 1), 1)} :
              frames' = [frames EXCEPT ![Len(frames)].sudoku_arr = filled,
                                       ![Len(frames)].n_zeros = CountZeros(filled)]
    /\ UNCHANGED <<pc, solved, solve_frame>>

\* a loop iteration with min(n_avail) > 1: the positions to branch on
SolveSplit ==
    /\ pc = "solve_run"
    /\ SolveTop.at = "loop" /\ SolveTop.n_zeros > 0
    /\ \E a \in {available_digits(SolveTop.sudoku_arr, << >>)} :
         /\ a.err = "ok"
         /\ Min(Range(SolveNAvail(a))) > 1
         /\ frames' = [frames EXCEPT ![Len(frames)].at = "branch",
                                      ![Len(frames)].a = a,
                                      ![Len(frames)].indices =
                                          solve_branch_cells(SolveNAvail(a)),
                                      ![Len(frames)].ci = 1,
                                      ![Len(frames)].vi = 1]
    /\ UNCHANGED <<pc, solved, solve_frame>>

\* tmp = sudoku_arr.copy(); tmp[...] = val; solve_sudoku(tmp)
SolveDescend ==
    /\ pc = "solve_run"
    /\ SolveTop.at = "branch" /\ SolveTop.ci <= Len(SolveTop.indices)
    /\ \E f \in {SolveTop} :
         LET idx == f.indices[f.ci] + 1
             val == solve_branch_values(f.a.avail_digits[idx])[f.vi]
             tmp == [f.sudoku_arr EXCEPT ![f.a.pos_x[idx]][f.a.pos_y[idx]] = val]
         IN  frames' = Append(frames, SolveFrame(tmp))
    /\ UNCHANGED <<pc, solved, solve_frame>>

\* the innermost call returns: the filled array, None at a dead end, or the
\* solutions its sub-branches found
SolveReturn ==
    /\ pc = "solve_run"
    /\ \E f \in {SolveTop} :
         \/ /\ f.at = "loop" /\ f.n_zeros <= 0
            /\ SolveDeliver([none |-> FALSE, solutions |-> <<f.sudoku_arr>>])
         \/ /\ f.at = "loop" /\ f.n_zeros > 0
            /\ \E a \in {available_digits(f.sudoku_arr, << >>)} :
                 a.err = "ok" /\ Min(Range(SolveNAvail(a))) = 0
            /\ SolveDeliver([none |-> TRUE, solutions |-> << >>])
         \/ /\ f.at = "branch" /\ f.ci > Len(f.indices)
            /\ SolveDeliver([none |-> FALSE, solutions |-> f.sudoku_solutions])
    /\ UNCHANGED solve_frame

SolveStepsInit ==
    /\ pc = "solve_call"
    /\ array_size = 0
    /\ sudoku_full = << >>
    /\ avail_lst = << >>
    /\ i = 0
    /\ sudoku_array = << >>
    /\ carve_args = << >>
    /\ rng = 0
    /\ ref = NoCall
    /\ ret = NoCall
    /\ puzzle_in \in SolveInputs \cup SolveAnyInputs
    /\ solved = << >>
    /\ random_seed_v = 0
    /\ digits_in = << >>
    /\ digits_out = << >>
    /\ procs = << >>
    /\ frames = << >>
    /\ c_puzzle = << >>
    /\ c_solution = << >>
    /\ puzzle_updated = << >>
    /\ filling_lst = << >>
    /\ filling_new = << >>
    /\ p_input = << >>
    /\ difficulty_v = << >>
    /\ n_hints = 0

SolveStepsNext ==
    SolveEnter \/ SolveRaise \/ SolveFill \/ SolveSplit \/ SolveDescend \/ SolveReturn

\* a call that has started keeps running
SpecSolveSteps ==
    SolveStepsInit /\ [][SolveStepsNext]_vars /\ WF_vars(SolveStepsNext)

(***************************************************************************)
(* main_sudoku_play: the puzzle sessions of one game.  A command is read   *)
(* into p_input and then handled; the filling strings of a filling command *)
(* are handled one by one.  A filling string is [pos, d]: pos the array    *)
(* position its two characters name (<< >> when they name none, or the     *)
(* string is malformed) and d the number after "=".                        *)
(***************************************************************************)
\* faulty variant: every number is taken for the solution's
fill_accept_any(solution_value, d) == TRUE

\* c_solution[x[0], y[0]] == int(t[1])
fill_accept(solution_value, d) == solution_value = d

\* puzzle_updated = c_puzzle.copy(): the object the session writes to
play_work(arg) == arg + 1

\* what c_puzzle holds once the session has written updated to puzzle_updated
play_puzzle_after(puzzle, updated) ==
    IF play_work(0) = 0 THEN updated ELSE puzzle

\* the commands but for the filling strings: hints, show current status, show
\* the solution, highlight a digit, restart, new puzzle, quit, and a line
\* holding "="
PlayCommands == {"h", "c", "s", "D", "r", "n", "q", "="}

FillStrings(n0) ==
    {[pos |-> pos, d |-> d] :
        pos \in ((0..(n0 - 1)) \X (0..(n0 - 1))) \cup {<< >>}, d \in 0..n0}

play_frame == <<array_size, sudoku_full, avail_lst, i, sudoku_array, carve_args,
                ref, ret, puzzle_in, solved, digits_in, digits_out, procs, frames>>

\* c_puzzle, c_solution = gen_customized_puzzle(...) and the locals of a session
PlayNew ==
    /\ pc = "play_new"
    /\ \E r \in {gen_customized_puzzle(array_size, random_seed_v, difficulty_v, rng)} :
         /\ r.err = "ok"
         /\ c_puzzle' = r.c_puzzle
         /\ c_solution' = r.c_solution
         /\ puzzle_updated' = r.c_puzzle
         /\ rng' = r.rng
         /\ pc' = IF CountZeros(r.c_puzzle) > 0 THEN "play" ELSE "play_end"
    /\ filling_lst' = << >>
    /\ filling_new' = << >>
    /\ p_input' = << >>
    /\ n_hints' = 0
    /\ UNCHANGED <<random_seed_v, difficulty_v, play_frame>>

\* p = input(...)
PlayRead ==
    /\ pc = "play"
    /\ p_input' \in PlayCommands
    /\ pc' = "play_cmd"
    /\ UNCHANGED <<rng, random_seed_v, c_puzzle, c_solution, puzzle_updated,
                   filling_lst, filling_new, difficulty_v, n_hints, play_frame>>

\* "hN" / "ha": the positions with one candidate, shuffled
PlayHint ==
    /\ pc = "play_cmd" /\ p_input = "h"
    /\ n_hints < MaxHints
    /\ \E a \in {available_digits(puzzle_updated, << >>)} :
         \E idx_hint \in {solve_indices([j \in 1..Len(a.avail_digits) |->
                                           Len(a.avail_digits[j])], 1)} :
            rng' = IF Len(idx_hint) = 0 THEN rng ELSE shuffle(rng, idx_hint).rng
    /\ n_hints' = n_hints + 1
    /\ pc' = "play"
    /\ UNCHANGED <<random_seed_v, c_puzzle, c_solution, puzzle_updated, filling_lst,
                   filling_new, p_input, difficulty_v, play_frame>>

\* "c", "s", a digit: display only
PlayShow ==
    /\ pc = "play_cmd" /\ p_input \in {"c", "s", "D"}
    /\ pc' = "play"
    /\ UNCHANGED <<rng, random_seed_v, c_puzzle, c_solution, puzzle_updated,
                   filling_lst, filling_new, p_input, difficulty_v, n_hints,
                   play_frame>>

\* "r": puzzle_updated = c_puzzle.copy(); filling_lst = []; p = 'c'; continue
PlayRestart ==
    /\ pc = "play_cmd" /\ p_input = "r"
    /\ puzzle_updated' = c_puzzle
    /\ filling_lst' = << >>
    /\ p_input' = "c"
    /\ UNCHANGED <<pc, rng, random_seed_v, c_puzzle, c_solution, filling_new,
                   difficulty_v, n_hints, play_frame>>

\* one filling string of a line holding "="
PlayFill ==
    /\ \/ pc = "play_cmd" /\ p_input = "="
       \/ pc = "play_fill"
    /\ \E s \in FillStrings(array_size) :
         /\ p_input' = s
         /\ IF s.pos # << >> /\ fill_accept(c_solution[s.pos[1]][s.pos[2]], s.d)
              THEN /\ Len(filling_lst) + Len(filling_new) < MaxFills
                   /\ filling_new' = Append(filling_new, s)
                   /\ puzzle_updated' = [puzzle_updated EXCEPT ![s.pos[1]][s.pos[2]] = s.d]
                   /\ c_puzzle' = play_puzzle_after(c_puzzle, puzzle_updated')
              ELSE UNCHANGED <<filling_new, puzzle_updated, c_puzzle>>
    /\ pc' = "play_fill"
    /\ UNCHANGED <<rng, random_seed_v, c_solution, filling_lst, difficulty_v,
                   n_hints, play_frame>>

\* the end of the line: filling_lst = filling_lst + filling_new, and the test of
\* the while loop
PlayFillEnd ==
    /\ pc = "play_fill"
    /\ filling_lst' = filling_lst \o filling_new
    /\ filling_new' = << >>
    /\ p_input' = << >>
    /\ pc' = IF CountZeros(puzzle_updated) > 0 THEN "play" ELSE "play_end"
    /\ UNCHANGED <<rng, random_seed_v, c_puzzle, c_solution, puzzle_updated,
                   difficulty_v, n_hints, play_frame>>

\* "n", or another puzzle after the last: the seed is incremented
PlayAgain ==
    /\ \/ pc = "play_cmd" /\ p_input = "n"
       \/ pc = "play_end"
    /\ random_seed_v < MaxSeed
    /\ random_seed_v' = random_seed_v + 1
    /\ pc' = "play_new"
    /\ UNCHANGED <<rng, c_puzzle, c_solution, puzzle_updated, filling_lst,
                   filling_new, p_input, difficulty_v, n_hints, play_frame>>

\* "q", or no other puzzle
PlayQuit ==
    /\ \/ pc = "play_cmd" /\ p_input = "q"
       \/ pc = "play_end"
    /\ pc' = "play_quit"
    /\ UNCHANGED <<rng, random_seed_v, c_puzzle, c_solution, puzzle_updated,
                   filling_lst, filling_new, p_input, difficulty_v, n_hints,
                   play_frame>>

PlayInit ==
    /\ pc = "play_new"
    /\ array_size = 4
    /\ sudoku_full = << >>
    /\ avail_lst = << >>
    /\ i = 0
    /\ sudoku_array = << >>
    /\ carve_args = << >>
    /\ rng = 0
    /\ ref = NoCall
    /\ ret = NoCall
    /\ puzzle_in = << >>
    /\ solved = << >>
    /\ random_seed_v \in Seeds
    /\ digits_in = << >>
    /\ digits_out = << >>
    /\ procs = << >>
    /\ frames = << >>
    /\ c_puzzle = << >>
    /\ c_solution = << >>
    /\ puzzle_updated = << >>
    /\ filling_lst = << >>
    /\ filling_new = << >>
    /\ p_input = << >>
    /\ difficulty_v \in Ratios
    /\ n_hints = 0

PlayNext ==
    \/ PlayNew \/ PlayRead \/ PlayHint \/ PlayShow \/ PlayRestart
    \/ PlayFill \/ PlayFillEnd \/ PlayAgain \/ PlayQuit

SpecPlay == PlayInit /\ [][PlayNext]_vars

(***************************************************************************)
(* Properties.                                                             *)
(***************************************************************************)
\* C1: whatever the shuffles leave, the grid gen_sudoku_full returns has the
\* side asked for, and every row, column and box of it holds each of
\* 1..array_size exactly once.
C1_FullGridValid ==
    pc = "gen_done" =>
        /\ Shape0(sudoku_full) = array_size
        /\ CompleteValid(sudoku_full)

C1_Witness == pc = "gen_done" /\ array_size = 4

\* C2: every grid of the list solve_sudoku returns for a valid partial grid is
\* complete and valid and agrees with the non-zero cells of the input.
C2_SolverSound ==
    (pc = "solve_done" /\ ~solved.none) =>
        \A k \in 1..Len(solved.solutions) :
            /\ CompleteValid(solved.solutions[k])
            /\ Agrees(solved.solutions[k], puzzle_in)

\* C3: every complete valid grid that agrees with the valid partial input is in
\* the list solve_sudoku returns.
C3_SolverExhaustive ==
    pc = "solve_done" =>
        \A g \in Completions(puzzle_in, 0) :
            ~solved.none /\ g \in Range(solved.solutions)

C3_Witness ==
    /\ pc = "solve_done"
    /\ solved.depth >= 1
    /\ Cardinality(Completions(puzzle_in, 0)) >= 2
    /\ Cardinality(Range(solved.solutions)) >= 2

\* C4: the list solve_sudoku returns holds no grid twice, and as many grids as
\* the input has valid completions.
C4_SolutionsDistinct ==
    (pc = "solve_done" /\ ~solved.none) =>
        /\ \A j, k \in 1..Len(solved.solutions) :
               j # k => solved.solutions[j] # solved.solutions[k]
        /\ Len(solved.solutions) = Cardinality(Completions(puzzle_in, 0))

\* C5: the grid gen_sudoku_puzzle returns for a complete valid grid holds, in
\* every non-zero cell, the value of the complete grid, and at least one empty
\* cell; the call raises nothing.
C5_CarverSubset ==
    /\ pc = "carve_done" =>
          /\ Agrees(sudoku_full, sudoku_array)
          /\ CountZeros(sudoku_array) >= 1
    /\ array_size >= 1 => pc # "carve_raise"

C5_Witness ==
    /\ pc = "carve_done"
    /\ array_size = 4
    /\ carve_args[1] = << >>
    /\ CountZeros(sudoku_array) \in 2..15

\* C6: the solver, run on the puzzle gen_customized_puzzle returned, returns a
\* list that holds the solution returned with the puzzle.
C6_RoundTrip ==
    ret.op = "solve" =>
        /\ ret.err = "ok"
        /\ ~ret.result.none
        /\ ret.full \in Range(ret.result.solutions)

C6_Witness ==
    /\ ret.op = "solve"
    /\ ret.n = 4
    /\ CountZeros(ret.ratio) >= 4
    /\ ret.full \in Range(ret.result.solutions)

SameCall(a, b) ==
    /\ a.op = b.op
    /\ a.n = b.n
    /\ a.full = b.full
    /\ a.ratio = b.ratio
    /\ a.seed = b.seed

\* C7: a later call of gen_sudoku_full or gen_sudoku_puzzle with the arguments
\* of the first call returns what the first call returned, whatever calls were
\* made in between and whatever state the generator was in before.
C7_SeedDeterminism ==
    (ref.op \in {"full", "puzzle"} /\ SameCall(ref, ret)) =>
        /\ ret.err = ref.err
        /\ ret.result = ref.result

C7_Witness ==
    /\ ref.op = "puzzle"
    /\ ref.n = 4
    /\ ~ret.first
    /\ SameCall(ref, ret)
    /\ ret.result = ref.result

\* two carver calls on the same complete grid with the same seed
SameCarve(a, b) ==
    /\ a.op = "puzzle" /\ b.op = "puzzle"
    /\ a.err = "ok" /\ b.err = "ok"
    /\ a.full = b.full
    /\ a.seed = b.seed

\* the limit c = max(1, int(ratio * N^2)) of a carver call with a ratio
CapOf(c) == Max({1, RatioCount(c.ratio, c.n)})

\* no filled cell of g can still be cleared: cleared alone, it has a candidate
\* list of another length than one
NothingLeftToClear(g) ==
    \A x \in DOMAIN g : \A y \in DOMAIN g[x] :
        g[x][y] # 0 => Len(Candidates([g EXCEPT ![x][y] = 0], x, y)) # 1

CapHolds(capped, uncapped) ==
    (SameCarve(capped, uncapped) /\ capped.ratio # << >> /\ uncapped.ratio = << >>)
        => CountZeros(capped.result)
             = Min({CapOf(capped), CountZeros(uncapped.result)})

\* C8: with a limit c the carver clears exactly min(c, E) cells, E being what it
\* clears without a limit on the same grid and seed; without a limit it goes
\* through every position, so that no cell it leaves filled can be cleared.
C8_CarverCap ==
    /\ CapHolds(ret, ref)
    /\ CapHolds(ref, ret)
    /\ (ret.op = "puzzle" /\ ret.err = "ok" /\ ret.ratio = << >>)
          => NothingLeftToClear(ret.result)

C8_Witness ==
    /\ SameCarve(ret, ref)
    /\ ref.ratio = << >>
    /\ ret.ratio # << >>
    /\ ret.n = 4
    /\ CapOf(ret) \in 2..(CountZeros(ref.result) - 1)
    /\ CountZeros(ret.result) = CapOf(ret)

Monotone(small, large) ==
    (SameCarve(small, large) /\ small.ratio # << >> /\ large.ratio # << >>
       /\ CapOf(small) <= CapOf(large))
        => /\ CountZeros(small.result) <= CountZeros(large.result)
           /\ \A x \in DOMAIN small.result : \A y \in DOMAIN small.result[x] :
                 small.result[x][y] = 0 => large.result[x][y] = 0

\* C9: for one complete grid and seed, a larger limit leaves at least as many
\* empty cells, and every cell empty under the smaller limit is empty under
\* the larger.
C9_CarverMonotone == Monotone(ref, ret) /\ Monotone(ret, ref)

C9_Witness ==
    /\ SameCarve(ref, ret)
    /\ ref.ratio # << >> /\ ret.ratio # << >>
    /\ ref.n = 4
    /\ CapOf(ref) < CapOf(ret)
    /\ CountZeros(ref.result) < CountZeros(ret.result)

Scaling(easy, hard) ==
    (easy.op = "custom" /\ hard.op = "custom" /\ easy.err = "ok" /\ hard.err = "ok"
       /\ easy.ratio[1] <= hard.ratio[1])
        => /\ CountZeros(easy.result) <= CountZeros(hard.result)
           /\ easy.full = hard.full

\* C10: for one size and seed, the puzzle of a larger difficulty (among the
\* fractions k/RatioDen) has at least as many empty cells, and the solution
\* returned is the same grid for every difficulty.
C10_DifficultyScaling == Scaling(ref, ret) /\ Scaling(ret, ref)

C10_Witness ==
    /\ ref.op = "custom" /\ ret.op = "custom"
    /\ ref.n = 4
    /\ ref.ratio[1] < ret.ratio[1]
    /\ CountZeros(ref.result) < CountZeros(ret.result)
    /\ ref.full = ret.full

\* the uncapped carve of the solution of an assembler call, under its seed
UncappedCarve(c) == gen_sudoku_puzzle(c.full, << >>, c.seed, 0).ret

\* num/den rounded to the nearest integer, a half to the even neighbour
RoundDiv(num, den) ==
    LET q == num \div den
        twice == 2 * (num % den)
    IN  IF twice < den THEN q
        ELSE IF twice > den THEN q + 1
        ELSE IF q % 2 = 0 THEN q ELSE q + 1

\* C11 (as stated): the puzzle of gen_customized_puzzle(N, seed, d) has exactly
\* max(1, round(d * E)) empty cells, E being the number of empty cells of the
\* uncapped carve of the solution.
C11_RemovalBudgetRounded ==
    (ret.op = "custom" /\ ret.err = "ok") =>
        CountZeros(ret.result)
          = Max({1, RoundDiv(ret.ratio[1] * CountZeros(UncappedCarve(ret)),
                             ret.ratio[2])})

\* C11 (amended): the puzzle of gen_customized_puzzle(N, seed, d) has exactly
\* max(1, int(d * E)) empty cells, the product cut down to an integer and not
\* rounded to the nearest.
C11_RemovalBudget ==
    (ret.op = "custom" /\ ret.err = "ok") =>
        CountZeros(ret.result)
          = Max({1, (ret.ratio[1] * CountZeros(UncappedCarve(ret)))
                       \div ret.ratio[2]})

C11_Witness ==
    /\ ret.op = "custom" /\ ret.err = "ok"
    /\ ret.n = 4
    /\ (ret.ratio[1] * CountZeros(UncappedCarve(ret))) % ret.ratio[2] # 0
    /\ CountZeros(ret.result) \in 2..(CountZeros(UncappedCarve(ret)) - 1)

CarveOrder ==
    gen_sudoku_puzzle(sudoku_full, carve_args[1], carve_args[2], rng).removed

RECURSIVE Rederives(_, _, _, _)
\* filling the positions order[k], order[k + step], ... of g one at a time,
\* each has at its turn one candidate only, its value in the complete grid
Rederives(g, order, k, step) ==
    IF k < 1 \/ k > Len(order) THEN TRUE
    ELSE LET x == Mx(Shape0(g), order[k])
             y == My(Shape0(g), order[k])
         IN  /\ Candidates(g, x, y) = <<sudoku_full[x][y]>>
             /\ Rederives([g EXCEPT ![x][y] = sudoku_full[x][y]], order,
                          k + step, step)

\* C13 (as stated): starting from the carved grid and filling the cleared cells
\* in the order they were cleared, each cell has, on the grid at the moment it
\* is filled, exactly one candidate, its value in the complete grid.
C13_RederiveInCarvingOrder ==
    pc = "carve_done" => Rederives(sudoku_array, CarveOrder, 1, 1)

\* C13 (amended): the same, filling the cleared cells in the reverse of the
\* order they were cleared, the last cleared first.
C13_RederiveInReverseOrder ==
    pc = "carve_done" =>
        /\ Range(CarveOrder) = Range(ZeroCells(sudoku_array))
        /\ Rederives(sudoku_array, CarveOrder, Len(CarveOrder), -1)

C13_Witness ==
    /\ pc = "carve_done"
    /\ array_size = 4
    /\ Len(CarveOrder) >= 4
    /\ Rederives(sudoku_array, CarveOrder, Len(CarveOrder), -1)
    /\ ~Rederives(sudoku_array, CarveOrder, 1, 1)

PerfectSquare(n) == \E k \in 0..n : k * k = n

\* the grid has N >= 1 rows and columns, N a perfect square
SquareGrid(g) ==
    /\ Shape0(g) >= 1
    /\ Shape1(g) = Shape0(g)
    /\ PerfectSquare(Shape0(g))

\* some cell holds a value above the side of the grid
Overflows(g) == \E v \in Values(g) : v > Shape0(g)

\* a position is given and one of its coordinates is outside [0, N)
OutOfRange(g, pos) ==
    /\ pos # << >>
    /\ \/ pos[1] \notin 0..(Shape0(g) - 1)
       \/ pos[2] \notin 0..(Shape0(g) - 1)

\* {1..N} minus the values in the row, the column and the box of (x, y)
Legal(g, x, y) ==
    (1..Shape0(g)) \ {g[q[1]][q[2]] : q \in Peers(Shape0(g), x, y) \cup {<<x, y>>}}

\* lst lists the members of S, each once
ListsSet(lst, S) == Range(lst) = S /\ Len(lst) = Cardinality(S)

\* C14: for a well-formed grid and a cell, available_digits returns {1..N}
\* minus the values of the cell's row, column and box; with no cell it returns
\* one such set for each empty cell and for no other, the coordinates in
\* row-major order, so that an empty grid yields {1..N} for all N^2 cells.
C14_CandidateSets ==
    LET g == digits_in.g
        pos == digits_in.pos
        n0 == Shape0(g)
        out == digits_out
    IN  (pc # "digits_call" /\ digits_in # << >> /\ SquareGrid(g)
           /\ ~Overflows(g) /\ ~OutOfRange(g, pos)) =>
            /\ pc = "digits_done"
            /\ Len(out.avail_digits) = Len(out.pos_x)
            /\ Len(out.avail_digits) = Len(out.pos_y)
            /\ \A j \in 1..Len(out.avail_digits) :
                  ListsSet(out.avail_digits[j], Legal(g, out.pos_x[j], out.pos_y[j]))
            /\ pos # << >> => (out.pos_x = <<pos[1]>> /\ out.pos_y = <<pos[2]>>)
            /\ pos = << >> =>
                  /\ \A j \in 1..Len(out.pos_x) : g[out.pos_x[j]][out.pos_y[j]] = 0
                  /\ \A j \in 1..(Len(out.pos_x) - 1) :
                        out.pos_x[j] * n0 + out.pos_y[j]
                          < out.pos_x[j + 1] * n0 + out.pos_y[j + 1]
                  /\ Len(out.pos_x)
                       = Cardinality({q \in (0..(n0 - 1)) \X (0..(n0 - 1)) :
                                        g[q[1]][q[2]] = 0})
            /\ (pos = << >> /\ g = Zeros(n0)) =>
                  /\ Len(out.avail_digits) = n0 * n0
                  /\ \A j \in 1..(n0 * n0) : Range(out.avail_digits[j]) = 1..n0

C14_Witness ==
    /\ pc = "digits_done"
    /\ digits_in.pos = << >>
    /\ Shape0(digits_in.g) = 4
    /\ Len(digits_out.avail_digits) = 2
    /\ Len(digits_out.avail_digits[1]) = 1
    /\ Len(digits_out.avail_digits[2]) = 0

\* the error the input calls for, the checks taken in the order not square,
\* value overflow, out of range
DigitsVerdict(g, pos) ==
    IF Shape1(g) # Shape0(g) \/ ~PerfectSquare(Shape0(g)) THEN "not a squared size"
    ELSE IF Overflows(g) THEN "max value overflow"
    ELSE IF OutOfRange(g, pos) THEN "out of range"
    ELSE "ok"

\* C15 (as stated): available_digits fails with the not-square error when the
\* grid is not N x N with N a perfect square, with the value-overflow error
\* when a value exceeds N, with the out-of-range error when a given cell has a
\* coordinate outside [0, N); it then returns no candidate set; for every
\* other input it returns without error.
C15_InputValidationAnyGrid ==
    (pc # "digits_call" /\ digits_in # << >>) =>
        /\ digits_out.err = DigitsVerdict(digits_in.g, digits_in.pos)
        /\ digits_out.err # "ok" =>
              (pc = "digits_raise" /\ digits_out.avail_digits = << >>)
        /\ digits_out.err = "ok" => pc = "digits_done"

\* C15 (amended): the same for every grid that has a cell; the 0 x 0 grid
\* fails with the zero-size error of the array library.
C15_InputValidation ==
    (pc # "digits_call" /\ digits_in # << >>) =>
        /\ digits_out.err = IF Shape0(digits_in.g) = 0 THEN "zero-size array"
                             ELSE DigitsVerdict(digits_in.g, digits_in.pos)
        /\ digits_out.err # "ok" =>
              (pc = "digits_raise" /\ digits_out.avail_digits = << >>)
        /\ digits_out.err = "ok" => pc = "digits_done"

C15_Witness ==
    /\ pc = "digits_raise"
    /\ Shape0(digits_in.g) = 9
    /\ digits_in.pos = <<9, 0>>
    /\ digits_out.err = "out of range"

\* C16: gen_sudoku_full fails with the invalid-size error, and returns no
\* grid, for every N that is not a positive perfect square: 0, negative N and
\* N such as 2 and 3.
C16_InvalidSizeRejected ==
    (pc # "gen_call" /\ ~(array_size >= 1 /\ PerfectSquare(array_size)))
        => pc = "gen_raise"

\* C17: gen_sudoku_puzzle fails with the invalid-solution error, and carves
\* nothing, for every grid in which some row, column or box is not a
\* permutation of 1..N.
C17_InvalidSolutionRejected ==
    (pc \in {"carve_done", "carve_raise"}
       /\ ~(SquareGrid(sudoku_full) /\ CompleteValid(sudoku_full)))
        => pc = "carve_raise"

\* C18: whenever the partial grid has no valid completion, solve_sudoku
\* returns an empty list as its solutions, when the call itself meets a
\* position without candidate as when every branch fails.
C18_UnsolvableGivesEmptyList ==
    (pc = "solve_done" /\ Completions(puzzle_in, 0) = {}) =>
        (~solved.none /\ solved.solutions = << >>)

\* C19: for every grid that available_digits rejects (not N x N with N a
\* perfect square, or holding a value above N), solve_sudoku fails with the
\* same error, also when the grid has no empty cell.
C19_SolverValidates ==
    (pc \in {"solve_done", "solve_raise"}
       /\ DigitsVerdict(puzzle_in, << >>) # "ok") =>
        (pc = "solve_raise" /\ solved.err = DigitsVerdict(puzzle_in, << >>))

\* C20: no operation changes a grid handed to it: the solution returned by
\* gen_customized_puzzle is, after both carving runs, still the complete grid
\* the generator produced, and the puzzle handed to solve_sudoku holds after
\* the call what it held before.
C20_ArgumentsUnchanged ==
    /\ ret.op = "custom" =>
          /\ ret.err = "ok"
          /\ ret.full = gen_sudoku_full(ret.n, ret.seed, 0).ret
          /\ SquareGrid(ret.full) /\ CompleteValid(ret.full)
    /\ ret.op = "solve" => ret.result.arg = ret.ratio

C20_Witness ==
    /\ ref.op = "custom"
    /\ ref.n = 4
    /\ CountZeros(ref.result) >= 4
    /\ CompleteValid(ref.full)
    /\ ret.op = "solve"
    /\ CountZeros(ret.ratio) >= 4
    /\ ret.result.arg = ret.ratio

\* what a call returns when it runs alone
ParAlone(c) ==
    IF c.op = "full" THEN gen_sudoku_full(c.arg, c.random_seed, 0).ret
    ELSE gen_sudoku_puzzle(c.arg, c.max_removed_ratio, c.random_seed, 0).ret

\* what a finished call of a process returns
ParResult(c) == IF c.op = "full" THEN c.sudoku_full ELSE c.run.arr

\* C21: when two generator or carver calls with fixed seeds run as two
\* processes whose steps interleave, each call returns the grid it returns
\* when it runs alone.
C21_InterleavingIndependence ==
    \A p \in DOMAIN procs :
        procs[p].pc = "done" => ParResult(procs[p]) = ParAlone(procs[p])

\* the grid g with every cell from row-major position p on emptied
Upto(g, p) ==
    LET n0 == Shape0(g)
    IN  [x \in 0..(n0 - 1) |->
            [y \in 0..(n0 - 1) |-> IF x * n0 + y < p THEN g[x][y] ELSE 0]]

\* frame j (0-based) has lost a candidate to a rollback
Discarded(j) ==
    Len(avail_lst[j + 1])
        < Cardinality(Legal(Upto(sudoku_full, j), Mx(array_size, j), My(array_size, j)))

\* C22: for every perfect-square N and every outcome of the shuffles the loop
\* of gen_sudoku_full reaches cursor = N^2 and returns, and no rollback runs
\* out of frames.
C22_GeneratorTerminates ==
    /\ [](pc # "gen_fault")
    /\ (pc = "gen_loop") ~> (pc = "gen_done")

C22_Witness ==
    /\ pc = "gen_loop"
    /\ array_size = 4
    /\ i = array_size * array_size
    /\ \E j \in 0..(i - 1) : Discarded(j)

\* C23: at every iteration head of gen_sudoku_full with cursor i, the frame
\* stack holds i frames; every cell before the cursor is non-zero and is the
\* first entry of its frame, whose entries are all legal for the cell given
\* the cells before it; every cell from the cursor on is 0; and the grid is a
\* valid partial grid.
C23_GeneratorLockstep ==
    pc = "gen_loop" =>
        /\ Len(avail_lst) = i
        /\ \A j \in 0..(i - 1) :
              /\ sudoku_full[Mx(array_size, j)][My(array_size, j)] # 0
              /\ avail_lst[j + 1] # << >>
              /\ sudoku_full[Mx(array_size, j)][My(array_size, j)] = avail_lst[j + 1][1]
              /\ Range(avail_lst[j + 1])
                    \subseteq Legal(Upto(sudoku_full, j),
                                    Mx(array_size, j), My(array_size, j))
        /\ \A j \in i..(array_size * array_size - 1) :
              sudoku_full[Mx(array_size, j)][My(array_size, j)] = 0
        /\ ValidPartial(sudoku_full)

C23_Witness ==
    /\ pc = "gen_loop"
    /\ array_size = 4
    /\ i > 4 /\ i < array_size * array_size
    /\ \E j \in 0..(i - 1) : Discarded(j)
    /\ gen_a_lst(GenState) = << >>

\* a propagation iteration of the innermost call
FillStep ==
    /\ pc = "solve_run" /\ pc' = "solve_run"
    /\ Len(frames') = Len(frames)
    /\ SolveTop.at = "loop"
    /\ frames'[Len(frames)].at = "loop"
    /\ frames' # frames

\* a nested call is made
CallStep == pc = "solve_run" /\ Len(frames') = Len(frames) + 1

\* C24: solve_sudoku terminates on every well-formed partial grid; every
\* propagation iteration strictly decreases the number of empty cells, every
\* recursive call receives a grid with strictly fewer empty cells than its
\* caller's, and the depth of the recursion never exceeds the number of empty
\* cells of the input.
C24_SolverTerminates ==
    /\ (pc = "solve_call") ~> (pc \in {"solve_done", "solve_raise"})
    /\ [][FillStep =>
            CountZeros(frames'[Len(frames)].sudoku_arr) < CountZeros(SolveTop.sudoku_arr)]_vars
    /\ [][CallStep =>
            CountZeros(frames'[Len(frames')].sudoku_arr) < CountZeros(SolveTop.sudoku_arr)]_vars
    /\ [](Len(frames) - 1 <= CountZeros(puzzle_in))

C24_Witness ==
    /\ pc = "solve_run"
    /\ puzzle_in \in SolveInputs
    /\ Len(frames) >= 3
    /\ SolveTop.at = "loop"
    /\ 0 < SolveTop.n_zeros /\ SolveTop.n_zeros < SolveTop.n0_zeros

\* C25: for every complete valid grid G, every seed and every cap, the puzzle
\* gen_sudoku_puzzle returns has exactly one valid completion, G itself, and
\* solve_sudoku on it never branches or meets a dead end and returns [G].
C25_CarvedSolvedByPropagation ==
    (pc = "carve_solved" /\ SquareGrid(sudoku_full) /\ CompleteValid(sudoku_full)) =>
        /\ Completions(sudoku_array, 0) = {sudoku_full}
        /\ ~solved.none
        /\ solved.solutions = <<sudoku_full>>
        /\ solved.calls = 1
        /\ \A k \in 1..Len(solved.record) : solved.record[k].kind = "filled"

C25_Witness ==
    /\ pc = "carve_solved"
    /\ array_size = 4
    /\ CompleteValid(sudoku_full)
    /\ CountZeros(sudoku_array) >= 8
    /\ solved.solutions = <<sudoku_full>>
    /\ solved.calls = 1

\* a puzzle session is under way
InSession == pc \in {"play", "play_cmd", "play_fill", "play_end"}

\* the filling string s names a position and the solution's number for it
RightFill(s) == s.pos # << >> /\ c_solution[s.pos[1]][s.pos[2]] = s.d

\* C26: within a puzzle session, every non-zero cell of puzzle_updated equals
\* the same cell of c_solution and every non-zero cell of c_puzzle is still in
\* puzzle_updated; a fill whose value differs from the solution leaves
\* puzzle_updated and the filling list unchanged; restart resets
\* puzzle_updated to c_puzzle and empties the filling list; c_puzzle and
\* c_solution are never modified.
C26_SessionInvariant ==
    /\ [](InSession =>
            /\ \A x \in 0..(array_size - 1), y \in 0..(array_size - 1) :
                  /\ puzzle_updated[x][y] # 0 => puzzle_updated[x][y] = c_solution[x][y]
                  /\ c_puzzle[x][y] # 0 => puzzle_updated[x][y] = c_puzzle[x][y]
            /\ \A k \in 1..Len(filling_lst) : RightFill(filling_lst[k]))
    /\ [][(pc' = "play_fill" /\ ~RightFill(p_input')) =>
            UNCHANGED <<puzzle_updated, filling_lst, filling_new>>]_vars
    /\ [][(pc = "play_cmd" /\ p_input = "r") =>
            (puzzle_updated' = c_puzzle /\ filling_lst' = << >>)]_vars
    /\ [][pc # "play_new" => UNCHANGED <<c_puzzle, c_solution>>]_vars

C26_Witness ==
    /\ pc = "play_fill"
    /\ Len(filling_lst) = 1
    /\ filling_new = << >>
    /\ puzzle_updated # c_puzzle
    /\ CountZeros(puzzle_updated) > 0
    /\ p_input.pos # << >>
    /\ p_input.d \notin {0, c_solution[p_input.pos[1]][p_input.pos[2]]}
    /\ puzzle_updated[p_input.pos[1]][p_input.pos[2]] = 0

====
